---- MODULE Spec2Model ----
(***************************************************************************)
(* A model of templatemaker (src/templatemaker.py): the aligner            *)
(* longest_common_substring, the merger make_template, and the Template    *)
(* object with its learn / as_text / num_holes / extract / extract_dict    *)
(* operations.                                                             *)
(*                                                                         *)
(* A Python str is a sequence of one-character strings.  Offsets keep the  *)
(* 0-based values of the source; Slice(s, lo, hi) is s[lo:hi].             *)
(***************************************************************************)
EXTENDS Integers, Sequences, FiniteSets, TLC

(***************************************************************************)
(* Bounds of the model.                                                    *)
(***************************************************************************)
MaxLen == 2
MaxLearns == 2
MaxTol == 2
LearnMaxLen == 2
LearnMaxLearns == 3
TolMaxLearns == 2
AlignMaxLen == 3
AlignMaxLearns == 2
TestMaxLearns == 2
SeedMaxLen == 1
SeedMaxLearns == 2
SeedExtractLearns == 1
DictMaxLearns == 2
DictMaxNames == 2
RunMaxLen == 3
RunMaxLearns == 2

(***************************************************************************)
(* Characters.                                                             *)
(***************************************************************************)
MARKER == "^_"
LF == "\n"
CR == "\r"

\* Optional[str]: None, or a one-element tuple holding the string.
None == <<>>
Some(s) == <<s>>

\* extract raising NoMatch, as the value the model gives the call.
NoMatch == <<>>

\* s[lo:hi] for 0 <= lo <= hi <= len(s).
Slice(s, lo, hi) == SubSeq(s, lo + 1, hi)

\* All strings over the character set chars of length at most n.
StringsUpTo(chars, n) == UNION {[1..k -> chars] : k \in 0..n}

Min(S) == CHOOSE x \in S : \A y \in S : x <= y
Max(S) == CHOOSE x \in S : \A y \in S : x >= y

(***************************************************************************)
(* longest_common_substring                                                *)
(***************************************************************************)
\* matrix[i][j] once the loops have filled it: the length of the common
\* suffix of a[:i] and b[:j].
RECURSIVE matrix(_, _, _, _)
matrix(a, b, i, j) ==
  IF i = 0 \/ j = 0 THEN 0
  ELSE IF a[i] = b[j] THEN matrix(a, b, i - 1, j - 1) + 1
  ELSE 0

\* The inner loop over j in 1..len(b) for row i, entered with
\* best = <<max_length, a_end_pos>>: it leaves the greatest cell of the row
\* and a_end_pos = i if that cell exceeds max_length, and best otherwise.
ScanRow(a, b, i, best) ==
  LET row_max == Max({matrix(a, b, i, j) : j \in 1..Len(b)})
  IN IF row_max > best[1] THEN <<row_max, i>> ELSE best

\* The outer loop, after the rows 1..i: <<max_length, a_end_pos>>.
RECURSIVE ScanMatrix(_, _, _)
ScanMatrix(a, b, i) ==
  IF i = 0 \/ Len(b) = 0 THEN <<0, 0>>
  ELSE ScanRow(a, b, i, ScanMatrix(a, b, i - 1))

\* str.find: the lowest offset at which sub occurs in s, or -1.
find(s, sub) ==
  LET at == {k \in 0..(Len(s) - Len(sub)) : Slice(s, k, k + Len(sub)) = sub}
  IN IF at = {} THEN -1 ELSE Min(at)

\* The scan keeping the last of the longest matches: ">=" for ">" in the
\* test of line 54.
ScanRowLast(a, b, i, best) ==
  LET row_max == Max({matrix(a, b, i, j) : j \in 1..Len(b)})
  IN IF row_max > 0 /\ row_max >= best[1] THEN <<row_max, i>> ELSE best

RECURSIVE ScanMatrixLast(_, _, _)
ScanMatrixLast(a, b, i) ==
  IF i = 0 \/ Len(b) = 0 THEN <<0, 0>>
  ELSE ScanRowLast(a, b, i, ScanMatrixLast(a, b, i - 1))

longest_common_substring_last(a, b) ==
  LET best == ScanMatrixLast(a, b, Len(a))
      max_length == best[1]
      a_end_pos == best[2]
      a_start_pos == a_end_pos - max_length
      b_start_pos == find(b, Slice(a, a_start_pos, a_end_pos))
  IN IF max_length = 0 THEN <<0, -1, -1>>
     ELSE <<max_length, a_start_pos, b_start_pos>>

\* <<length, a_offset, b_offset>>
longest_common_substring(a, b) ==
  LET best == ScanMatrix(a, b, Len(a))
      max_length == best[1]
      a_end_pos == best[2]
      a_start_pos == a_end_pos - max_length
      b_start_pos == find(b, Slice(a, a_start_pos, a_end_pos))
  IN IF max_length = 0 THEN <<0, -1, -1>>
     ELSE <<max_length, a_start_pos, b_start_pos>>

(***************************************************************************)
(* make_template                                                           *)
(***************************************************************************)
RECURSIVE make_template(_, _, _)

\* The test refusing only what is shorter than the tolerance: "<" for "<="
\* in line 96.
is_hole_strict(best_size, tolerance) ==
  \/ best_size = 0
  \/ tolerance > 0 /\ best_size < tolerance

\* The test with its comparison turned round: a common substring at least
\* as long as the tolerance is refused.
is_hole_inverted(best_size, tolerance) ==
  \/ best_size = 0
  \/ tolerance > 0 /\ best_size >= tolerance

\* The test without its tolerance: every common substring is kept.
is_hole_zero_only(best_size, tolerance) ==
  best_size = 0

\* The test of lines 91-97 on the aligner's length: no common substring, or
\* one no longer than the tolerance.
is_hole(best_size, tolerance) ==
  \/ best_size = 0
  \/ tolerance > 0 /\ best_size <= tolerance

\* The merge without the holes of lines 108 and 124: a side that only one
\* of the two strings has yields nothing.
merge_at_bare_sides(template_str, new_str, tolerance, lcs) ==
  LET best_size == lcs[1]
      a_offset == lcs[2]
      b_offset == lcs[3]
      a_end == a_offset + best_size
      b_end == b_offset + best_size
      left_template ==
        IF a_offset > 0 /\ b_offset > 0
        THEN make_template(Slice(template_str, 0, a_offset),
                           Slice(new_str, 0, b_offset), tolerance)
        ELSE <<>>
      right_template ==
        IF a_end < Len(template_str) /\ b_end < Len(new_str)
        THEN make_template(Slice(template_str, a_end, Len(template_str)),
                           Slice(new_str, b_end, Len(new_str)), tolerance)
        ELSE <<>>
      common_part == Slice(template_str, a_offset, a_end)
  IN IF is_hole(best_size, tolerance) THEN <<MARKER>>
     ELSE left_template \o common_part \o right_template

\* make_template from line 91 on: what it builds around the aligner's
\* result lcs = <<best_size, a_offset, b_offset>>.
merge_at(template_str, new_str, tolerance, lcs) ==
  LET best_size == lcs[1]
      a_offset == lcs[2]
      b_offset == lcs[3]
      a_end == a_offset + best_size
      b_end == b_offset + best_size
      left_template ==
        IF a_offset > 0 \/ b_offset > 0
        THEN IF a_offset > 0 /\ b_offset > 0
             THEN make_template(Slice(template_str, 0, a_offset),
                                Slice(new_str, 0, b_offset), tolerance)
             ELSE <<MARKER>>
        ELSE <<>>
      right_template ==
        IF a_end < Len(template_str) \/ b_end < Len(new_str)
        THEN IF a_end < Len(template_str) /\ b_end < Len(new_str)
             THEN make_template(Slice(template_str, a_end, Len(template_str)),
                                Slice(new_str, b_end, Len(new_str)), tolerance)
             ELSE <<MARKER>>
        ELSE <<>>
      common_part == Slice(template_str, a_offset, a_end)
  IN IF is_hole(best_size, tolerance) THEN <<MARKER>>
     ELSE left_template \o common_part \o right_template

\* make_template without the hole of line 86: a span that only one of the
\* two strings has yields nothing.
make_template_empty_side(template_str, new_str, tolerance) ==
  IF template_str = <<>> \/ new_str = <<>> THEN <<>>
  ELSE merge_at(template_str, new_str, tolerance,
                longest_common_substring(template_str, new_str))

make_template(template_str, new_str, tolerance) ==
  IF template_str = <<>> /\ new_str = <<>> THEN <<>>
  ELSE IF template_str = <<>> \/ new_str = <<>> THEN <<MARKER>>
  ELSE merge_at(template_str, new_str, tolerance,
                longest_common_substring(template_str, new_str))

(***************************************************************************)
(* Template: the pure parts                                                *)
(***************************************************************************)
\* Template.clean: re.sub(r"\r\n", "\n", text)
RECURSIVE clean(_)
clean(text) ==
  IF Len(text) = 0 THEN <<>>
  ELSE IF Len(text) >= 2 /\ text[1] = CR /\ text[2] = LF
       THEN <<LF>> \o clean(Slice(text, 2, Len(text)))
       ELSE <<text[1]>> \o clean(Slice(text, 1, Len(text)))

\* text.replace(MARKER, "")
IsNotMarker(c) == c # MARKER
strip_marker(text) == SelectSeq(text, IsNotMarker)

\* str.count(MARKER)
count_marker(s) == Cardinality({k \in 1..Len(s) : s[k] = MARKER})

\* Template.num_holes, of a Template whose _brain is b.
num_holes(b) == IF b = None THEN 0 ELSE count_marker(b[1])

\* str.replace(MARKER, custom_marker)
RECURSIVE replace_marker(_, _)
replace_marker(s, custom_marker) ==
  IF Len(s) = 0 THEN <<>>
  ELSE (IF s[1] = MARKER THEN custom_marker ELSE <<s[1]>>)
         \o replace_marker(Slice(s, 1, Len(s)), custom_marker)

\* Template.as_text, of a Template whose _brain is b.
as_text(b, custom_marker) ==
  IF b = None THEN <<>> ELSE replace_marker(b[1], custom_marker)

(***************************************************************************)
(* Template.extract: the regular expression and its search                 *)
(***************************************************************************)
\* "$" without re.MULTILINE at offset pos of text: the end of the text, or
\* just before a newline that is the last character of the text.
at_dollar(text, pos) ==
  \/ pos = Len(text)
  \/ pos = Len(text) - 1 /\ text[Len(text)] = LF

\* re.search(f"(?s)^{pattern}$", text), where pattern is the brain b with
\* every literal escaped and every MARKER replaced by the lazy group (.*?),
\* as the backtracking matcher runs it: from element p of the pattern
\* (p elements consumed) at offset pos of the text.  A lazy group tries
\* the lengths 0, 1, 2, ... in turn (lazy_group, from length k); under (?s)
\* the dot matches every character.  None when nothing matches, else
\* Some(groups).
RECURSIVE re_match(_, _, _, _)
RECURSIVE lazy_group(_, _, _, _, _)
re_match(b, p, text, pos) ==
  IF p = Len(b) THEN (IF at_dollar(text, pos) THEN Some(<<>>) ELSE None)
  ELSE IF b[p + 1] = MARKER THEN lazy_group(b, p, text, pos, 0)
  ELSE IF pos < Len(text) /\ text[pos + 1] = b[p + 1]
       THEN re_match(b, p + 1, text, pos + 1)
       ELSE None

lazy_group(b, p, text, pos, k) ==
  IF pos + k > Len(text) THEN None
  ELSE LET rest == re_match(b, p + 1, text, pos + k)
       IN IF rest # None
          THEN Some(<<Slice(text, pos, pos + k)>> \o rest[1])
          ELSE lazy_group(b, p, text, pos, k + 1)

\* "^" anchors the search at offset 0.
re_search(b, text) == re_match(b, 0, text, 0)

(***************************************************************************)
(* Template: the object and its methods                                    *)
(***************************************************************************)
\* Template.__init__
Template(tolerance, brain) ==
  [brain |-> brain, tolerance |-> tolerance, version |-> 0]

\* learn answering True also when the hole count stayed the same.
learn_not_fewer(self, text) ==
  LET text2 == strip_marker(clean(text))
      old_holes == num_holes(self.brain)
      merged == make_template(self.brain[1], text2, self.tolerance)
  IN IF self.brain = None
     THEN [self |-> [self EXCEPT !.version = @ + 1, !.brain = Some(text2)],
           ret |-> "None"]
     ELSE [self |-> [self EXCEPT !.version = @ + 1, !.brain = Some(merged)],
           ret |-> IF num_holes(Some(merged)) >= old_holes
                   THEN "True" ELSE "False"]

\* learn counting the version after the early return of line 178 only.
learn_late_version(self, text) ==
  LET text2 == strip_marker(clean(text))
      old_holes == num_holes(self.brain)
      merged == make_template(self.brain[1], text2, self.tolerance)
  IN IF self.brain = None
     THEN [self |-> [self EXCEPT !.brain = Some(text2)], ret |-> "None"]
     ELSE [self |-> [self EXCEPT !.version = @ + 1, !.brain = Some(merged)],
           ret |-> IF num_holes(Some(merged)) > old_holes
                   THEN "True" ELSE "False"]

\* Template.learn on the Template self: the Template after the call and
\* the value returned ("None", "True" or "False").
learn(self, text) ==
  LET text1 == clean(text)
      text2 == strip_marker(text1)
      old_holes == num_holes(self.brain)
      merged == make_template(self.brain[1], text2, self.tolerance)
  IN IF self.brain = None
     THEN [self |-> [self EXCEPT !.version = @ + 1, !.brain = Some(text2)],
           ret |-> "None"]
     ELSE [self |-> [self EXCEPT !.version = @ + 1, !.brain = Some(merged)],
           ret |-> IF num_holes(Some(merged)) > old_holes
                   THEN "True" ELSE "False"]

\* extract without the test of line 222: no brain is an empty brain.
extract_unguarded(self, text) ==
  re_search(IF self.brain = None THEN <<>> ELSE self.brain[1], clean(text))

\* Template.extract on the Template self: NoMatch when it is raised (m is
\* None, or there is no brain), else Some(m.groups()).
extract(self, text) ==
  IF self.brain = None THEN NoMatch
  ELSE re_search(self.brain[1], clean(text))

\* zip(field_names, data): the pairs of the overlapping prefix, in order.
zip(field_names, data) ==
  [i \in 1..Min({Len(field_names), Len(data)}) |-> <<field_names[i], data[i]>>]

\* dict(): a dict is the function from its keys to their values.
EmptyDict == [name \in {} |-> <<>>]

\* d[name] = value
set_item(d, name, value) ==
  [n \in DOMAIN d \cup {name} |-> IF n = name THEN value ELSE d[n]]

\* A dict comprehension that keeps the first value given to a name.
RECURSIVE dict_first_wins(_)
dict_first_wins(pairs) ==
  IF pairs = <<>> THEN EmptyDict
  ELSE LET d == dict_first_wins(SubSeq(pairs, 1, Len(pairs) - 1))
           name == pairs[Len(pairs)][1]
           value == pairs[Len(pairs)][2]
       IN IF name = None \/ name[1] \in DOMAIN d THEN d
          ELSE set_item(d, name[1], value)

\* extract_dict built on it.
extract_dict_first_wins(self, text, field_names) ==
  LET data == extract(self, text)
  IN IF data = NoMatch THEN NoMatch
     ELSE Some(dict_first_wins(zip(field_names, data[1])))

\* {name: value for name, value in pairs if name is not None}: the pairs
\* are taken in order, and each one that has a name sets its item.
RECURSIVE dict_comprehension(_)
dict_comprehension(pairs) ==
  IF pairs = <<>> THEN EmptyDict
  ELSE LET d == dict_comprehension(SubSeq(pairs, 1, Len(pairs) - 1))
           name == pairs[Len(pairs)][1]
           value == pairs[Len(pairs)][2]
       IN IF name = None THEN d ELSE set_item(d, name[1], value)

\* Template.extract_dict on the Template self, field_names a tuple of
\* Optional[str]: NoMatch when extract raises it, else Some(data_dict).
extract_dict(self, text, field_names) ==
  LET data == extract(self, text)
  IN IF data = NoMatch THEN NoMatch
     ELSE Some(dict_comprehension(zip(field_names, data[1])))

\* The call of longest_common_substring that learn's make_template starts
\* with (line 89), as <<a, b, result>>; <<>> when it makes none.
first_alignment(self, text) ==
  LET text2 == strip_marker(clean(text))
  IN IF self.brain = None \/ self.brain[1] = <<>> \/ text2 = <<>>
     THEN <<>>
     ELSE <<self.brain[1], text2,
            longest_common_substring(self.brain[1], text2)>>

(***************************************************************************)
(* State                                                                   *)
(***************************************************************************)
VARIABLES
  t,        \* the Template
  t2,       \* a second Template, fed the same samples (create_template)
  samples,  \* the texts passed to t.learn so far, in order
  last      \* the last call on t, what it was given and what it returned

vars == <<t, t2, samples, last>>

NoCall ==
  [op |-> "new", text |-> <<>>, ret |-> "-", groups |-> None, lcs |-> <<>>,
   before |-> Template(0, None)]

\* t = Template(tolerance, brain); t2 = Template(tolerance2)
New(tolerances, brains, tolerances2) ==
  /\ \E tol \in tolerances, b \in brains : t = Template(tol, b)
  /\ \E tol \in tolerances2 : t2 = Template(tol, None)
  /\ samples = <<>>
  /\ last = NoCall

\* t.learn(text)
Learn(texts, maxLearns) ==
  \E text \in texts :
    /\ t.version < maxLearns
    /\ t' = learn(t, text).self
    /\ samples' = Append(samples, text)
    /\ last' = [op |-> "learn", text |-> text, ret |-> learn(t, text).ret,
                groups |-> None, lcs |-> first_alignment(t, text),
                before |-> t]
    /\ UNCHANGED t2

\* create_template of src/tests.py, one step of its loop for two Templates
\* given the same inputs: t.learn(text) and t2.learn(text)
LearnBoth(texts, maxLearns) ==
  \E text \in texts :
    /\ t.version < maxLearns
    /\ t' = learn(t, text).self
    /\ t2' = learn(t2, text).self
    /\ samples' = Append(samples, text)
    /\ last' = [op |-> "learn", text |-> text, ret |-> learn(t, text).ret,
                groups |-> None, lcs |-> first_alignment(t, text),
                before |-> t]

\* t.extract(text)
Extract(texts) ==
  \E text \in texts :
    /\ last' = [op |-> "extract", text |-> text, ret |-> "-",
                groups |-> extract(t, text), lcs |-> <<>>, before |-> t]
    /\ UNCHANGED <<t, t2, samples>>

\* t.extract_dict(text, field_names)
ExtractDict(texts, names) ==
  \E text \in texts, field_names \in names :
    /\ last' = [op |-> "extract_dict", text |-> text, ret |-> "-",
                groups |-> extract(t, text), lcs |-> <<>>, before |-> t,
                field_names |-> field_names,
                data_dict |-> extract_dict(t, text, field_names)]
    /\ UNCHANGED <<t, t2, samples>>

(***************************************************************************)
(* A fresh Template learning and extracting texts that hold a letter, line *)
(* ends and the marker                                                     *)
(***************************************************************************)
Chars == {"a", LF, CR, MARKER}
Texts == StringsUpTo(Chars, MaxLen)

Init == New(0..MaxTol, {None}, {0})
Next == Learn(Texts, MaxLearns) \/ Extract(Texts)
Spec == Init /\ [][Next]_vars

(***************************************************************************)
(* A Template created with or without a seed brain, learning short texts   *)
(***************************************************************************)
SeedBrains == {None, Some(<<"a", MARKER>>)}
ShortTexts == StringsUpTo(Chars, SeedMaxLen)

InitSeeded == New(0..MaxTol, SeedBrains, {0})
NextSeeded == Learn(ShortTexts, SeedMaxLearns)
SpecSeeded == InitSeeded /\ [][NextSeeded]_vars

(***************************************************************************)
(* The same, learning and extracting                                       *)
(***************************************************************************)
NextSeededExtract == Learn(ShortTexts, SeedExtractLearns) \/ Extract(ShortTexts)
SpecSeededExtract == InitSeeded /\ [][NextSeededExtract]_vars

(***************************************************************************)
(* Learning only, over a two-letter alphabet                               *)
(***************************************************************************)
LearnTexts == StringsUpTo({"a", "b"}, LearnMaxLen)

InitLearn == New(0..MaxTol, {None}, {0})
NextLearn == Learn(LearnTexts, LearnMaxLearns)
SpecLearn == InitLearn /\ [][NextLearn]_vars

(***************************************************************************)
(* Two Templates of tolerances t.tolerance <= t2.tolerance learning the    *)
(* same samples                                                            *)
(***************************************************************************)
InitTol == New(0..MaxTol, {None}, 0..MaxTol) /\ t.tolerance <= t2.tolerance
NextTol == LearnBoth(LearnTexts, TolMaxLearns)
SpecTol == InitTol /\ [][NextTol]_vars

(***************************************************************************)
(* A fresh Template of tolerance 0 learning strings over two letters and   *)
(* the inputs of test_left_weight                                          *)
(***************************************************************************)
AlignTexts ==
  StringsUpTo({"a", "b"}, AlignMaxLen) \cup {<<"a", "b", "c">>, <<"a", "c", "b">>}

InitAlign == New({0}, {None}, {0})
NextAlign == Learn(AlignTexts, AlignMaxLearns)
SpecAlign == InitAlign /\ [][NextAlign]_vars

(***************************************************************************)
(* create_template on inputs of test_tolerance and test_one_char_start     *)
(***************************************************************************)
Title(inner) ==
  <<"<", "t", "i", "t", "l", "e", ">">> \o inner
    \o <<"<", "/", "t", "i", "t", "l", "e", ">">>

TestTexts ==
  { Title(<<"1", "2", "3">>), Title(<<"a", "2", "c">>),
    Title(<<"1", "2", "3", "4">>), Title(<<"a", "2", "3", "c">>),
    Title(<<>>), <<"1", "2", "3">>,
    <<"1", "2", "3", "4", "5">>, <<"_", "2", "3", "4", "5">> }

InitTests == New(0..MaxTol, {None}, {0})
NextTests == Learn(TestTexts, TestMaxLearns)
SpecTests == InitTests /\ [][NextTests]_vars

(***************************************************************************)
(* Template() learning and extracting, as a dict, the texts of             *)
(* test_dict_extraction, test_none_field_name and test_no_match            *)
(***************************************************************************)
B(inner) == <<"<", "b", ">">> \o inner \o <<"<", "/", "b", ">">>
And(x, y) == x \o <<" ", "a", "n", "d", " ">> \o y

\* The samples the tests learn.
DictSamples ==
  { B(And(<<"t", "h", "i", "s">>, <<"t", "h", "a", "t">>)),
    B(And(<<"a", "l", "e", "x">>, <<"s", "u", "e">>)) }

\* The texts the tests extract from.
DictInputs ==
  { B(And(<<"l", "a", "r", "r", "y">>, <<"c", "u", "r", "l", "y">>)),
    And(<<"t", "h", "i", "s">>, <<"t", "h", "a", "t">>) }

\* The tuples of field names: each a name or None.
FieldNames == StringsUpTo({None, Some("first"), Some("second")}, DictMaxNames)

InitDict == New({0}, {None}, {0})
NextDict ==
  Learn(DictSamples, DictMaxLearns) \/ ExtractDict(DictInputs, FieldNames)
SpecDict == InitDict /\ [][NextDict]_vars

(***************************************************************************)
(* A fresh Template of any tolerance learning strings over two letters     *)
(* long enough for a brain to hold a hole beside a literal of two letters, *)
(* a text that clean changes and a text that holds the marker              *)
(***************************************************************************)
RunTexts ==
  StringsUpTo({"a", "b"}, RunMaxLen) \cup {<<"a", CR, LF>>, <<MARKER, "a">>}

InitRuns == New(0..MaxTol, {None}, {0})
NextRuns == Learn(RunTexts, RunMaxLearns)
SpecRuns == InitRuns /\ [][NextRuns]_vars

(***************************************************************************)
(* Claims about learn and the hole count                                   *)
(***************************************************************************)
HolesBefore == num_holes(last.before.brain)
HolesAfter == num_holes(t.brain)

\* C1, as stated: after every learn call num_holes() is greater than or
\* equal to num_holes() before the call.
C1_HolesNeverDecrease ==
  last.op = "learn" => HolesAfter >= HolesBefore

\* C1, amended: a learn call may lower the hole count, but never to zero: a
\* brain with at least one hole before a learn call has at least one hole
\* after it.
C1_HolesNeverVanish ==
  last.op = "learn" /\ HolesBefore >= 1 => HolesAfter >= 1

\* C1, witness: a learn call that left fewer holes than it found.
C1_Witness ==
  last.op = "learn" /\ HolesBefore >= 2 /\ HolesAfter = 1

\* The sample of the last learn call was learned by an earlier call too.
LearnedBefore ==
  \E k \in 1..(Len(samples) - 1) : samples[k] = last.text

\* The sample of the last learn call is the one the call before it learned.
LearnedJustBefore ==
  Len(samples) >= 2 /\ samples[Len(samples) - 1] = samples[Len(samples)]

\* A fresh Template that has learned one text only, once or several times.
SameTextOnly ==
  /\ Len(samples) >= 1
  /\ \A k \in 1..Len(samples) : samples[k] = samples[1]

\* Learning one text again and again with tolerance 0 leaves the brain
\* equal to that text, with no hole.
NoopAtToleranceZero ==
  t.tolerance = 0 /\ SameTextOnly =>
    t.brain = Some(strip_marker(clean(samples[1]))) /\ HolesAfter = 0

\* C2, as stated: learning a sample that an earlier call of the sequence
\* learned never increases num_holes() and does not return True; and the
\* same text learned repeatedly with tolerance 0 stays the brain, no hole.
C2_RelearnNeverAddsHoles ==
  /\ last.op = "learn" /\ LearnedBefore =>
       HolesAfter <= HolesBefore /\ last.ret # "True"
  /\ NoopAtToleranceZero

\* C2, amended: with tolerance 0, learning again the sample that the call
\* just before learned leaves the brain as it was and returns False; and
\* the same text learned repeatedly with tolerance 0 stays the brain, no
\* hole.
C2_RepeatIsNoopAtToleranceZero ==
  /\ last.op = "learn" /\ t.tolerance = 0 /\ LearnedJustBefore =>
       t.brain = last.before.brain /\ last.ret = "False"
  /\ NoopAtToleranceZero

\* C2, witness: tolerance 0, a brain with holes, and the last sample
\* learned twice in a row.
C2_Witness ==
  /\ last.op = "learn" /\ t.tolerance = 0 /\ LearnedJustBefore
  /\ Len(samples) = 3 /\ samples[1] # samples[2]
  /\ HolesAfter >= 2

(***************************************************************************)
(* Claims about the tolerance                                              *)
(***************************************************************************)
\* The number of literal characters of the brain b.
num_literals(b) == IF b = None THEN 0 ELSE Len(b[1]) - count_marker(b[1])

\* C3, as stated: of two fresh Templates that learned the same samples in
\* the same order, the one with the greater tolerance has at least as many
\* holes.
C3_MoreToleranceMoreHoles ==
  t.tolerance <= t2.tolerance => num_holes(t2.brain) >= num_holes(t.brain)

\* C3, amended: of two fresh Templates that learned the same samples in the
\* same order, the one with the greater tolerance keeps at most as many
\* literal characters in its brain (its hole count may be the smaller one).
C3_MoreToleranceFewerLiterals ==
  t.tolerance <= t2.tolerance =>
    num_literals(t2.brain) <= num_literals(t.brain)

\* C3, witness: the greater tolerance ended with fewer holes and fewer
\* literal characters.
C3_Witness ==
  /\ Len(samples) >= 2
  /\ t.tolerance < t2.tolerance
  /\ num_holes(t2.brain) < num_holes(t.brain)
  /\ num_literals(t2.brain) < num_literals(t.brain)

(***************************************************************************)
(* Claims about learn's result                                             *)
(***************************************************************************)
\* What every learn call does whatever it returns: the version goes up by
\* one, and the result is True or False by the hole count when it is not
\* None, the brain the cleaned text when it is None.
LearnResult ==
  /\ t.version = last.before.version + 1
  /\ last.ret \in {"None", "True", "False"}
  /\ last.ret = "None" => t.brain = Some(strip_marker(clean(last.text)))
  /\ last.ret # "None" => (last.ret = "True" <=> HolesAfter > HolesBefore)

\* C8, as stated: learn returns None exactly when the text is the first
\* sample this Template learns, the brain then being the cleaned text; on
\* every later call it returns True if num_holes() grew and False if not;
\* and every call adds one to version.
C8_NoneExactlyOnFirstSample ==
  last.op = "learn" =>
    /\ last.ret = "None" <=> Len(samples) = 1
    /\ LearnResult

\* C8, amended: learn returns None exactly when the Template has no brain
\* before the call (its first learn call, if it was created without a seed
\* brain), the brain then being the cleaned text; on every other call it
\* returns True if num_holes() grew and False if not; and every call adds
\* one to version.
C8_NoneExactlyWithoutBrain ==
  last.op = "learn" =>
    /\ last.ret = "None" <=> last.before.brain = None
    /\ LearnResult

\* C8, witness: the first learn call of a Template created with a seed
\* brain, which merged the sample into the seed and returned False.
C8_Witness ==
  /\ last.op = "learn" /\ Len(samples) = 1
  /\ last.before.brain # None /\ last.ret = "False"
  /\ t.brain # last.before.brain
  /\ t.version = 1

(***************************************************************************)
(* Claims about extract                                                    *)
(***************************************************************************)
\* C4, as stated: the marker is deleted from the text given to learn and
\* from the text given to extract: each call does what it does on the text
\* without its markers, and the first sample puts no marker in the brain.
C4_SentinelStripped ==
  /\ last.op = "learn" =>
       /\ learn(last.before, last.text)
            = learn(last.before, strip_marker(last.text))
       /\ last.before.brain = None => HolesAfter = 0
  /\ last.op = "extract" =>
       last.groups = extract(last.before, strip_marker(last.text))

\* text is the literal runs of the brain b in order, with some string, the
\* empty one included, in the place of each hole.
RECURSIVE Decomposes(_, _)
Decomposes(b, text) ==
  IF b = <<>> THEN text = <<>>
  ELSE IF b[1] = MARKER
       THEN \E k \in 0..Len(text) :
              Decomposes(Tail(b), Slice(text, k, Len(text)))
       ELSE /\ text # <<>>
            /\ text[1] = b[1]
            /\ Decomposes(Tail(b), Tail(text))

\* C5, as stated: with a brain, extract returns a result if and only if
\* the whole cleaned text decomposes into the brain's literal runs and one
\* string per hole, and raises NoMatch otherwise.
C5_AnchoredMatch ==
  last.op = "extract" /\ last.before.brain # None =>
    (last.groups # NoMatch
       <=> Decomposes(last.before.brain[1], clean(last.text)))

\* The brain b with the strings of groups in the place of its holes, in
\* order.
RECURSIVE fill(_, _)
fill(b, groups) ==
  IF b = <<>> THEN <<>>
  ELSE IF b[1] = MARKER
       THEN (IF groups = <<>> THEN <<>> ELSE groups[1] \o fill(Tail(b), Tail(groups)))
       ELSE <<b[1]>> \o fill(Tail(b), groups)

\* C6, as stated: a successful extract returns num_holes() strings, and
\* the brain with the i-th string in the place of its i-th hole is the
\* text that was matched.
C6_RoundTrip ==
  last.op = "extract" /\ last.groups # NoMatch =>
    /\ Len(last.groups[1]) = num_holes(last.before.brain)
    /\ fill(last.before.brain[1], last.groups[1]) = clean(last.text)

\* What holds of every extract call: it changes nothing of the Template.
ExtractReadsOnly ==
  t = last.before

\* C9, as stated: a Template on which learn was never called fails every
\* extract with NoMatch, and a failed extract leaves brain, tolerance and
\* version as they were.
C9_NeverLearnedNeverMatches ==
  last.op = "extract" =>
    /\ Len(samples) = 0 => last.groups = NoMatch
    /\ last.groups = NoMatch => ExtractReadsOnly

\* C9, amended: a Template created without a seed brain on which learn was
\* never called fails every extract with NoMatch, and a failed extract
\* leaves brain, tolerance and version as they were.
C9_NoBrainNeverMatches ==
  last.op = "extract" =>
    /\ last.before.brain = None => last.groups = NoMatch
    /\ last.groups = NoMatch => ExtractReadsOnly

\* C9, witness: extract of a text that is not empty failed on a Template
\* that has no brain.
C9_Witness ==
  /\ last.op = "extract" /\ Len(samples) = 0 /\ t.brain = None
  /\ Len(last.text) >= 1 /\ last.groups = NoMatch

(***************************************************************************)
(* Claims about the aligner                                                *)
(***************************************************************************)
\* a[i:i+n] and b[j:j+n] are the same substring of n characters.
CommonAt(a, b, n, i, j) ==
  /\ 0 <= i /\ i + n <= Len(a)
  /\ 0 <= j /\ j + n <= Len(b)
  /\ Slice(a, i, i + n) = Slice(b, j, j + n)

\* The places <<n, i, j>> of the common substrings of a and b, n >= 1.
CommonPlaces(a, b) ==
  {p \in (1..Len(a)) \X (0..Len(a)) \X (0..Len(b)) :
     CommonAt(a, b, p[1], p[2], p[3])}

\* r = <<L, i, j>> is a longest common substring of a and b, the first in
\* the order of the scan (the lowest end in a, then the lowest place in b),
\* and <<0, -1, -1>> when a and b share no character.
FirstLongest(a, b, r) ==
  IF CommonPlaces(a, b) = {} THEN r = <<0, -1, -1>>
  ELSE /\ r \in CommonPlaces(a, b)
       /\ \A p \in CommonPlaces(a, b) :
            /\ p[1] <= r[1]
            /\ p[1] = r[1] => r[2] <= p[2]
            /\ p[1] = r[1] /\ p[2] = r[2] => r[3] <= p[3]

Bang == <<"!">>

\* C7: longest_common_substring(a, b) returns the first, in the order of
\* the scan, of the longest common substrings of a and b, and length 0 when
\* they share no character; so with tolerance 0, "ab" then "ba" renders as
\* "!a!" and "abc" then "acb" as "a!b!".
C7_FirstLongestCommonSubstring ==
  /\ last.lcs # <<>> => FirstLongest(last.lcs[1], last.lcs[2], last.lcs[3])
  /\ t.tolerance = 0 /\ samples = << <<"a", "b">>, <<"b", "a">> >> =>
       as_text(t.brain, Bang) = <<"!", "a", "!">>
  /\ t.tolerance = 0 /\ samples = << <<"a", "b", "c">>, <<"a", "c", "b">> >> =>
       as_text(t.brain, Bang) = <<"a", "!", "b", "!">>

\* C7, witness: an alignment in which a second common substring, as long
\* as the one returned and two characters or more, ends later in a.
C7_Witness ==
  /\ last.lcs # <<>>
  /\ last.lcs[3][1] >= 2
  /\ \E p \in CommonPlaces(last.lcs[1], last.lcs[2]) :
       p[1] = last.lcs[3][1] /\ p[2] > last.lcs[3][2]

(***************************************************************************)
(* Claims about test_tolerance                                             *)
(***************************************************************************)
TitleScenario ==
  samples = << Title(<<"1", "2", "3">>), Title(<<"a", "2", "c">>) >>

\* C10, as stated: "<title>123</title>" then "<title>a2c</title>" renders
\* as "<title>!</title>" with tolerance 1 and as "<title>!23!</title>" with
\* tolerance 0.
C10_TitleScenario ==
  /\ TitleScenario /\ t.tolerance = 1 =>
       as_text(t.brain, Bang) = Title(<<"!">>)
  /\ TitleScenario /\ t.tolerance = 0 =>
       as_text(t.brain, Bang) = Title(<<"!", "2", "3", "!">>)

\* C10, amended: "<title>123</title>" then "<title>a2c</title>" renders as
\* "<title>!</title>" with tolerance 1 and as "<title>!2!</title>" with
\* tolerance 0.
C10_TitleScenarioOneDigit ==
  /\ TitleScenario /\ t.tolerance = 1 =>
       as_text(t.brain, Bang) = Title(<<"!">>)
  /\ TitleScenario /\ t.tolerance = 0 =>
       as_text(t.brain, Bang) = Title(<<"!", "2", "!">>)

\* C10, witness: the two titles learned with tolerance 1, one hole.
C10_Witness ==
  TitleScenario /\ t.tolerance = 1 /\ HolesAfter = 1 /\ last.ret = "True"

(***************************************************************************)
(* Claims about extract_dict                                               *)
(***************************************************************************)
\* The positions that zip pairs: the overlapping prefix of the field names
\* and of the values extract returned.
Overlap == 1..Min({Len(last.field_names), Len(last.groups[1])})

\* The positions of the overlapping prefix whose field name is not None.
Named == {i \in Overlap : last.field_names[i] # None}

\* extract_dict raised NoMatch exactly when extract does, and if it did not,
\* the keys of the dict are the names of the named positions.
DictOfNamedPositions ==
  /\ (last.data_dict = NoMatch) <=> (extract(last.before, last.text) = NoMatch)
  /\ last.data_dict # NoMatch =>
       DOMAIN last.data_dict[1] = {last.field_names[i][1] : i \in Named}

\* C11, as stated: extract_dict raises NoMatch exactly when extract does;
\* otherwise its dict holds, for every position i of the overlapping prefix
\* of the field names and the extracted values whose field name is not
\* None, the i-th value under the i-th name, and nothing else.
C11_PairsByPosition ==
  last.op = "extract_dict" =>
    /\ DictOfNamedPositions
    /\ last.data_dict # NoMatch =>
         \A i \in Named :
           last.data_dict[1][last.field_names[i][1]] = last.groups[1][i]

\* C11, amended: the same, except that of the positions that carry one
\* name only the last has its value in the dict.
C11_LastPositionOfNameWins ==
  last.op = "extract_dict" =>
    /\ DictOfNamedPositions
    /\ last.data_dict # NoMatch =>
         \A i \in Named :
           (\A j \in Named : j > i => last.field_names[j] # last.field_names[i])
             => last.data_dict[1][last.field_names[i][1]] = last.groups[1][i]

\* C11, witness: extract_dict gave a dict for field names that name two
\* positions alike, whose values differ.
C11_Witness ==
  /\ last.op = "extract_dict"
  /\ last.data_dict # NoMatch
  /\ \E i, j \in Named :
       /\ i < j
       /\ last.field_names[i] = last.field_names[j]
       /\ last.groups[1][i] # last.groups[1][j]
       /\ last.data_dict[1][last.field_names[j][1]] = last.groups[1][j]

(***************************************************************************)
(* Claims about the literal text of the brain                              *)
(***************************************************************************)
\* The maximal literal runs of the brain b, each as <<first, last>>, the
\* positions of its first and last character: no MARKER within, and a
\* MARKER or an end of the brain on either side.
LiteralRuns(b) ==
  {r \in (1..Len(b)) \X (1..Len(b)) :
     /\ r[1] <= r[2]
     /\ \A k \in r[1]..r[2] : b[k] # MARKER
     /\ r[1] = 1 \/ b[r[1] - 1] = MARKER
     /\ r[2] = Len(b) \/ b[r[2] + 1] = MARKER}

HasNoMarker(s) == \A k \in 1..Len(s) : s[k] # MARKER

\* C13: whatever a Template created without a brain has learned, with any
\* tolerance, extract raises no NoMatch on any of the samples learned so
\* far that holds no MARKER.
C13_LearnedSamplesStillMatch ==
  \A k \in 1..Len(samples) :
    HasNoMarker(samples[k]) => extract(t, samples[k]) # NoMatch

\* C13, witness: a sample learned before the last one, which differs from
\* it and holds no MARKER, is matched by a brain of literal text and holes,
\* and extract returns a part of it for a hole.
C13_Witness ==
  /\ Len(samples) >= 2
  /\ last.op = "learn"
  /\ samples[1] # last.text
  /\ HasNoMarker(samples[1])
  /\ LiteralRuns(t.brain[1]) # {}
  /\ extract(t, samples[1]) # NoMatch
  /\ \E g \in 1..Len(extract(t, samples[1])[1]) :
       extract(t, samples[1])[1][g] # <<>>

====
